---- MODULE Spec2Model ----
(***************************************************************************)
(* Assembly of a Tracklist from the command list of a cue sheet            *)
(* (src/src/tracklist.rs): Tracklist::parse, TrackFile::consume and        *)
(* Track::consume, run as one sequential program over the vector           *)
(* `commands`, which is consumed from the front.                           *)
(*                                                                         *)
(* Option<T> is written as a sequence of length at most one: None is <<>>  *)
(* and Some(x) is <<x>>.  A String the code inspects character by          *)
(* character (the key and the value of a REM command) is a sequence of     *)
(* one-character strings; the other strings are opaque.                    *)
(***************************************************************************)
EXTENDS Integers, Sequences, FiniteSets, TLC

None == <<>>
Some(x) == <<x>>

(***************************************************************************)
(* Bounds of the model.                                                    *)
(***************************************************************************)
\* the largest number of pieces (single commands or whole tracks) an input
\* of the body family is made of
MaxChunks == 3
\* the largest number of header commands an input of the header family has
MaxHeader == 2
\* the frame counts and the minutes the conversions of Time are tried on
MaxFrames == 9100
MaxMinutes == 2

(***************************************************************************)
(* Time (parser::Time): minutes, seconds and frames, 75 frames a second.   *)
(* A frame count is a u64.  The model writes the u64 value v as the        *)
(* integer x with v = x when x >= 0 and v = 2^64 + x when x < 0 (the       *)
(* values a wrapped subtraction yields), since 2^64 is beyond the model    *)
(* checker's integers.  2^64 = MinutesPerWrap * 4500 + WrapRemainder with  *)
(* MinutesPerWrap = 4099276460824344, which is never computed with: the    *)
(* field `wraps` of a Time counts how many times MinutesPerWrap is to be   *)
(* added to its field `minutes`.                                           *)
(***************************************************************************)
FramesPerSecond == 75
SecondsPerMinute == 60
FramesPerMinute == FramesPerSecond * SecondsPerMinute
\* 2^64 % 4500
WrapRemainder == 3616

Time(m, s, f) == [minutes |-> m, seconds |-> s, frames |-> f, wraps |-> 0]

\* Time::total_frames (to_frames): minutes*4500 + seconds*75 + frames
total_frames(t) ==
    t.minutes * FramesPerMinute + t.seconds * FramesPerSecond + t.frames
        - t.wraps * WrapRemainder

\* Time::from_frames: minutes = n / 4500, r = n % 4500, seconds = r / 75,
\* frames = r % 75
from_frames(n) ==
    LET v == IF n < 0 THEN n + WrapRemainder ELSE n
        r == v % FramesPerMinute
    IN  [minutes |-> v \div FramesPerMinute,
         seconds |-> r \div FramesPerSecond,
         frames  |-> r % FramesPerSecond,
         wraps   |-> IF n < 0 THEN 1 ELSE 0]

\* a - b on u64 frame counts leaves the range of u64: the subtraction
\* overflows (a panic where overflow is checked, a wrapped value otherwise)
Underflows(a, b) ==
    IF (a < 0) = (b < 0) THEN a < b ELSE b < 0

\* the wrapped difference, and the exact one when nothing overflows
WrappingSub(a, b) == a - b

\* impl Sub for Time: from_frames(a.total_frames() - b.total_frames())
TimeSub(a, b) == from_frames(WrappingSub(total_frames(a), total_frames(b)))

(***************************************************************************)
(* Commands (parser::Command).                                             *)
(***************************************************************************)
Catalog(p)    == [cmd |-> "Catalog", p |-> p]
Performer(p)  == [cmd |-> "Performer", p |-> p]
Title(t)      == [cmd |-> "Title", t |-> t]
Rem(t, d)     == [cmd |-> "Rem", t |-> t, d |-> d]
File(n, f)    == [cmd |-> "File", name |-> n, format |-> f]
TrackCmd(n, tt) == [cmd |-> "Track", number |-> n, track_type |-> tt]
Pregap(time)  == [cmd |-> "Pregap", time |-> time]
Index(i, time) == [cmd |-> "Index", i |-> i, time |-> time]
Isrc(t)       == [cmd |-> "Isrc", t |-> t]

\* commands.remove(0)
Remove0(s) == Tail(s)

(***************************************************************************)
(* str::to_uppercase on ASCII letters.                                     *)
(***************************************************************************)
LowerChars ==
    <<"a", "b", "c", "d", "e", "f", "g", "h", "i", "j", "k", "l", "m", "n", "o", "p", "q", "r", "s", "t", "u", "v", "w", "x", "y", "z">>
UpperChars ==
    <<"A", "B", "C", "D", "E", "F", "G", "H", "I", "J", "K", "L", "M", "N", "O", "P", "Q", "R", "S", "T", "U", "V", "W", "X", "Y", "Z">>

CharUpper(c) ==
    IF \E i \in 1..Len(LowerChars) : LowerChars[i] = c
    THEN UpperChars[CHOOSE i \in 1..Len(LowerChars) : LowerChars[i] = c]
    ELSE c

\* the key compared as written
to_uppercase_Verbatim(s) == s

to_uppercase(s) == [i \in 1..Len(s) |-> CharUpper(s[i])]

(***************************************************************************)
(* str::parse::<u8>: an optional leading "+", then decimal digits only,    *)
(* at least one, the value accumulated with checked arithmetic.            *)
(***************************************************************************)
Digits == <<"0", "1", "2", "3", "4", "5", "6", "7", "8", "9">>
U8Max == 255

IsDigit(c) == \E i \in 1..10 : Digits[i] = c
DigitValue(c) == (CHOOSE i \in 1..10 : Digits[i] = c) - 1

RECURSIVE AccumulateU8(_, _)
\* Ok(n) as <<n>>, Err(InvalidDigit | PosOverflow) as <<>>
AccumulateU8(digits, acc) ==
    IF digits = <<>> THEN Some(acc)
    ELSE IF ~IsDigit(Head(digits)) THEN None
    ELSE LET next == acc * 10 + DigitValue(Head(digits))
         IN  IF next > U8Max THEN None ELSE AccumulateU8(Tail(digits), next)

RECURSIVE AccumulateWide(_, _)
AccumulateWide(digits, acc) ==
    IF digits = <<>> THEN Some(acc % (U8Max + 1))
    ELSE IF ~IsDigit(Head(digits)) THEN None
    ELSE AccumulateWide(Tail(digits), acc * 10 + DigitValue(Head(digits)))

\* the value parsed as a wider integer and cut to eight bits
ParseU8_Truncating(d) ==
    IF d = <<>> THEN None
    ELSE IF Len(d) = 1 /\ Head(d) \in {"+", "-"} THEN None
    ELSE IF Head(d) = "+" THEN AccumulateWide(Tail(d), 0)
    ELSE AccumulateWide(d, 0)

ParseU8(d) ==
    IF d = <<>> THEN None
    ELSE IF Len(d) = 1 /\ Head(d) \in {"+", "-"} THEN None
    ELSE IF Head(d) = "+" THEN AccumulateU8(Tail(d), 0)
    ELSE AccumulateU8(d, 0)

(***************************************************************************)
(* The inputs: the command lists parser::parse_cue hands to the assembly.  *)
(* Any list of commands can come out of the parser, so the model draws     *)
(* the input from two bounded families.                                    *)
(***************************************************************************)
RECURSIVE Flatten(_)
Flatten(ss) == IF ss = <<>> THEN <<>> ELSE Head(ss) \o Flatten(Tail(ss))

GenreValue == <<"R", "o", "c", "k">>
PopValue == <<"P", "o", "p">>

\* the header commands the header family is made of
HeaderCmds ==
    { Catalog("0724349703629"), Performer("Marillion"), Performer("Fish"),
      Title("Misplaced Childhood"),
      Rem(<<"g", "e", "n", "r", "e">>, GenreValue), Rem(<<"G", "e", "N", "r", "E">>, PopValue),
      Rem(<<"D", "A", "T", "E">>, <<"1", "9", "8", "5">>), Rem(<<"D", "i", "s", "c", "I", "d">>, <<"D", "C", "0", "E", "6", "8", "1", "1">>),
      Rem(<<"c", "o", "m", "m", "e", "n", "t">>, <<"E", "A", "C">>),
      Rem(<<"D", "I", "S", "C", "N", "U", "M", "B", "E", "R">>, <<"2">>), Rem(<<"d", "i", "s", "c", "n", "u", "m", "b", "e", "r">>, <<"a", "b", "c">>),
      Rem(<<"D", "I", "S", "C", "N", "U", "M", "B", "E", "R">>, <<"2", "5", "6">>), Rem(<<"D", "i", "s", "c", "N", "u", "m", "b", "e", "r">>, <<"2", "5", "5">>),
      Rem(<<"D", "I", "S", "C", "N", "U", "M", "B", "E", "R">>, <<"+", "7">>), Rem(<<"D", "I", "S", "C", "N", "U", "M", "B", "E", "R">>, <<>>),
      Rem(<<"T", "O", "T", "A", "L", "D", "I", "S", "C", "S">>, <<"3">>), Rem(<<"t", "o", "t", "a", "l", "d", "i", "s", "c", "s">>, <<"-", "1">>),
      Rem(<<"T", "o", "t", "a", "l", "D", "i", "s", "c", "s">>, <<"0", "0", "7">>), Rem(<<"G", "E", "N", "R", "E", "S">>, <<"R", "o", "c", "k">>),
      Rem(<<"R", "E", "P", "L", "A", "Y", "G", "A", "I", "N">>, <<"2">>) }

\* what follows the header run in the header family
HeaderTails ==
    { <<>>,
      << File("disc.flac", "Wave"), TrackCmd(1, "Audio"), Title("Lady Nina"),
         Performer("Fish"), Title("Freaks"), Index(1, Time(0, 0, 0)) >> }

HeaderInputs ==
    { Flatten(<<h, t>>) :
        h \in UNION { [1..k -> HeaderCmds] : k \in 0..MaxHeader }, t \in HeaderTails }

\* the pieces the body family is made of: every kind of command alone, whole
\* tracks, and a FILE with its first track
BodyChunks ==
    { << File("a.flac", "Wave") >>,
      << File("a.flac", "Wave"), TrackCmd(1, "Audio"), Index(1, Time(0, 0, 0)) >>,
      << File("b.img", "Binary"), TrackCmd(2, "Audio"), Index(0, Time(1, 0, 10)),
         Index(1, Time(1, 2, 10)) >>,
      << TrackCmd(4, "Audio") >>,
      << TrackCmd(1, "Audio"), Index(1, Time(0, 0, 0)) >>,
      << TrackCmd(2, "Audio"), Performer("Fish"), Index(0, Time(1, 0, 10)),
         Index(1, Time(1, 2, 10)) >>,
      << TrackCmd(3, "Mode1/2352"), Pregap(Time(0, 2, 0)), Index(1, Time(2, 1, 36)) >>,
      << Title("Freaks") >>,
      << Isrc("GBAYE9801904") >>,
      << Index(1, Time(0, 1, 0)) >>,
      << Pregap(Time(0, 2, 0)) >>,
      << Catalog("0724349703629") >> }

BodyInputs ==
    { Flatten(cs) : cs \in UNION { [1..k -> BodyChunks] : k \in 0..MaxChunks } }

Inputs == HeaderInputs \cup BodyInputs

(***************************************************************************)
(* State.                                                                  *)
(***************************************************************************)
VARIABLES
    input,        \* the command list parse_cue returned (never changed)
    commands,     \* what is left of it
    pc,           \* where the program stands
    catalog, performer, title, genre, date, discid, comment,
    discnumber, totaldiscs,   \* the locals of Tracklist::parse
    files,        \* the local `files` of Tracklist::parse
    file,         \* TrackFile::consume: name, format and tracks so far
    last_time,    \* TrackFile::consume: the local last_time
    track,        \* Track::consume: the track being read
    track_result, \* what the last call of Track::consume returned
    file_result,  \* what the last call of TrackFile::consume returned
    last_sub,     \* the operands of the last frame-count subtraction
    wrapped,      \* a subtraction has wrapped: the build checks no overflow
    result        \* what Tracklist::parse returned

header == <<catalog, performer, title, genre, date, discid, comment,
            discnumber, totaldiscs>>
vars == <<input, commands, pc, header, files, file, last_time, track,
          track_result, file_result, last_sub, wrapped, result>>

NoFile == [tracks |-> <<>>, name |-> "", format |-> ""]
NoTrack == [title |-> None, track_type |-> "", duration |-> None, index |-> <<>>,
            number |-> 0, performer |-> None, isrc |-> None]

Init ==
    /\ input \in Inputs
    /\ commands = input
    /\ pc = "header"
    /\ catalog = None /\ performer = None /\ title = None /\ genre = None
    /\ date = None /\ discid = None /\ comment = None
    /\ discnumber = None /\ totaldiscs = None
    /\ files = <<>>
    /\ file = NoFile
    /\ last_time = None
    /\ track = NoTrack
    /\ track_result = "none"
    /\ file_result = "none"
    /\ last_sub = None
    /\ wrapped = FALSE
    /\ result = None

HeadIs(kind) == commands # <<>> /\ Head(commands).cmd = kind

(***************************************************************************)
(* Tracklist::parse, the header loop (lines 74-112).                       *)
(***************************************************************************)
K_GENRE == <<"G", "E", "N", "R", "E">>
K_DATE == <<"D", "A", "T", "E">>
K_DISCID == <<"D", "I", "S", "C", "I", "D">>
K_COMMENT == <<"C", "O", "M", "M", "E", "N", "T">>
K_DISCNUMBER == <<"D", "I", "S", "C", "N", "U", "M", "B", "E", "R">>
K_TOTALDISCS == <<"T", "O", "T", "A", "L", "D", "I", "S", "C", "S">>

HeaderCatalog ==
    /\ pc = "header" /\ HeadIs("Catalog")
    /\ catalog' = Some(Head(commands).p)
    /\ commands' = Remove0(commands)
    /\ UNCHANGED <<input, pc, performer, title, genre, date, discid, comment,
                   discnumber, totaldiscs, files, file, last_time, track,
                   track_result, file_result, last_sub, wrapped, result>>

HeaderPerformer ==
    /\ pc = "header" /\ HeadIs("Performer")
    /\ performer' = Some(Head(commands).p)
    /\ commands' = Remove0(commands)
    /\ UNCHANGED <<input, pc, catalog, title, genre, date, discid, comment,
                   discnumber, totaldiscs, files, file, last_time, track,
                   track_result, file_result, last_sub, wrapped, result>>

HeaderTitle ==
    /\ pc = "header" /\ HeadIs("Title")
    /\ title' = Some(Head(commands).t)
    /\ commands' = Remove0(commands)
    /\ UNCHANGED <<input, pc, catalog, performer, genre, date, discid, comment,
                   discnumber, totaldiscs, files, file, last_time, track,
                   track_result, file_result, last_sub, wrapped, result>>

\* Command::Rem(t, d): the match on t.to_uppercase() (lines 88-107)
HeaderRem ==
    /\ pc = "header" /\ HeadIs("Rem")
    /\ LET key == to_uppercase(Head(commands).t)
           d == Head(commands).d
       IN  /\ genre' = IF key = K_GENRE THEN Some(d) ELSE genre
           /\ date' = IF key = K_DATE THEN Some(d) ELSE date
           /\ discid' = IF key = K_DISCID THEN Some(d) ELSE discid
           /\ comment' = IF key = K_COMMENT THEN Some(d) ELSE comment
           /\ discnumber' = IF key = K_DISCNUMBER /\ ParseU8(d) # None
                            THEN ParseU8(d) ELSE discnumber
           /\ totaldiscs' = IF key = K_TOTALDISCS /\ ParseU8(d) # None
                            THEN ParseU8(d) ELSE totaldiscs
    /\ commands' = Remove0(commands)
    /\ UNCHANGED <<input, pc, catalog, performer, title, files, file, last_time,
                   track, track_result, file_result, last_sub, wrapped, result>>

\* the loop ends: no command is left, or the first one is no header command
HeaderBreak ==
    /\ pc = "header"
    /\ \/ commands = <<>>
       \/ /\ commands # <<>>
          /\ Head(commands).cmd \notin {"Catalog", "Performer", "Title", "Rem"}
    /\ pc' = "files"
    /\ UNCHANGED <<input, commands, header, files, file, last_time, track,
                   track_result, file_result, last_sub, wrapped, result>>

(***************************************************************************)
(* Tracklist::parse, the file loop and the return (lines 114-134).         *)
(***************************************************************************)
\* Ok(Tracklist { .. }) with the files given
TracklistOf(fs) ==
    [catalog |-> catalog, files |-> fs, performer |-> performer, title |-> title,
     genre |-> genre, date |-> date, discid |-> discid, comment |-> comment,
     discnumber |-> discnumber, totaldiscs |-> totaldiscs]

\* while commands.len() > 0 fails: the Tracklist is returned
FilesExit ==
    /\ pc = "files" /\ commands = <<>>
    /\ result' = Some(TracklistOf(files))
    /\ pc' = "done"
    /\ UNCHANGED <<input, commands, header, files, file, last_time, track,
                   track_result, file_result, last_sub, wrapped>>

\* TrackFile::consume, lines 153-155: the first command is removed and is a FILE
FileBegin ==
    /\ pc = "files" /\ HeadIs("File")
    /\ file' = [tracks |-> <<>>, name |-> Head(commands).name,
                format |-> Head(commands).format]
    /\ last_time' = None
    /\ commands' = Remove0(commands)
    /\ pc' = "tracks"
    /\ UNCHANGED <<input, header, files, track, track_result, file_result,
                   last_sub, wrapped, result>>

\* TrackFile::consume, lines 153 and 187-189: the first command is removed and
\* is no FILE: Err; Tracklist::parse leaves its loop (line 119) and returns
FileFail ==
    /\ pc = "files" /\ commands # <<>> /\ ~HeadIs("File")
    /\ commands' = Remove0(commands)
    /\ file_result' = "ExpectedFile"
    /\ result' = Some(TracklistOf(files))
    /\ pc' = "done"
    /\ UNCHANGED <<input, header, files, file, last_time, track, track_result,
                   last_sub, wrapped>>

(***************************************************************************)
(* TrackFile::consume, the track loop (lines 157-186).                     *)
(***************************************************************************)
\* Ok(TrackFile { tracks, name, format }) comes back to Tracklist::parse,
\* which pushes it (lines 116-117)
ReturnFile ==
    /\ file_result' = "Ok"
    /\ files' = Append(files, file)
    /\ pc' = "files"

\* while commands.len() > 0 fails
TracksExit ==
    /\ pc = "tracks" /\ commands = <<>>
    /\ ReturnFile
    /\ UNCHANGED <<input, commands, header, file, last_time, track, track_result,
                   last_sub, wrapped, result>>

\* Track::consume, lines 226-230: the first command is removed and is a TRACK
TrackBegin ==
    /\ pc = "tracks" /\ HeadIs("Track")
    /\ track' = [title |-> None, track_type |-> Head(commands).track_type,
                 duration |-> None, index |-> <<>>,
                 number |-> Head(commands).number, performer |-> None,
                 isrc |-> None]
    /\ commands' = Remove0(commands)
    /\ pc' = "track"
    /\ UNCHANGED <<input, header, files, file, last_time, track_result,
                   file_result, last_sub, wrapped, result>>

\* Track::consume, lines 226 and 280-282: the first command is removed and is
\* no TRACK: Err; TrackFile::consume leaves its loop (line 179) and returns Ok
TrackFail ==
    /\ pc = "tracks" /\ commands # <<>> /\ ~HeadIs("Track")
    /\ commands' = Remove0(commands)
    /\ track_result' = "ExpectedTrack"
    /\ ReturnFile
    /\ UNCHANGED <<input, header, file, last_time, track, last_sub, wrapped,
                   result>>

(***************************************************************************)
(* Track::consume, the loop over the track's commands (lines 232-269).     *)
(***************************************************************************)
\* the performer written to the local of Tracklist::parse
TrackPerformer_SetsHeader ==
    /\ pc = "track" /\ HeadIs("Performer")
    /\ performer' = Some(Head(commands).p)
    /\ commands' = Remove0(commands)
    /\ UNCHANGED <<input, pc, catalog, title, genre, date, discid, comment,
                   discnumber, totaldiscs, files, file, last_time, track,
                   track_result, file_result, last_sub, wrapped, result>>

TrackPerformer ==
    /\ pc = "track" /\ HeadIs("Performer")
    /\ track' = [track EXCEPT !.performer = Some(Head(commands).p)]
    /\ commands' = Remove0(commands)
    /\ UNCHANGED <<input, pc, header, files, file, last_time, track_result,
                   file_result, last_sub, wrapped, result>>

TrackTitle ==
    /\ pc = "track" /\ HeadIs("Title")
    /\ track' = [track EXCEPT !.title = Some(Head(commands).t)]
    /\ commands' = Remove0(commands)
    /\ UNCHANGED <<input, pc, header, files, file, last_time, track_result,
                   file_result, last_sub, wrapped, result>>

TrackIsrc ==
    /\ pc = "track" /\ HeadIs("Isrc")
    /\ track' = [track EXCEPT !.isrc = Some(Head(commands).t)]
    /\ commands' = Remove0(commands)
    /\ UNCHANGED <<input, pc, header, files, file, last_time, track_result,
                   file_result, last_sub, wrapped, result>>

\* the entry put at the front of the list
TrackIndex_Prepends ==
    /\ pc = "track" /\ HeadIs("Index")
    /\ track' = [track EXCEPT
                   !.index = <<<<Head(commands).i, Head(commands).time>>>> \o @]
    /\ commands' = Remove0(commands)
    /\ UNCHANGED <<input, pc, header, files, file, last_time, track_result,
                   file_result, last_sub, wrapped, result>>

TrackIndex ==
    /\ pc = "track" /\ HeadIs("Index")
    /\ track' = [track EXCEPT
                   !.index = Append(@, <<Head(commands).i, Head(commands).time>>)]
    /\ commands' = Remove0(commands)
    /\ UNCHANGED <<input, pc, header, files, file, last_time, track_result,
                   file_result, last_sub, wrapped, result>>

\* commands.get(1) is an INDEX (lines 247-254)
PregapHasIndex == Len(commands) >= 2 /\ commands[2].cmd = "Index"

\* the pregap added to the index time
PregapEntry_Added(first_index, time) ==
    <<0, from_frames(total_frames(first_index) + total_frames(time))>>

\* the pregap taken off field by field, with no carry
PregapEntry_Fieldwise(first_index, time) ==
    <<0, [minutes |-> first_index.minutes - time.minutes,
          seconds |-> first_index.seconds - time.seconds,
          frames |-> first_index.frames - time.frames,
          wraps |-> 0]>>

\* lines 259-260: the index entry made of a pregap
PregapEntry(first_index, time) ==
    <<0, from_frames(WrappingSub(total_frames(first_index), total_frames(time)))>>

\* a frame-count subtraction a - b: it is recorded; when it leaves the range
\* of u64 it wraps in a build without overflow checks, and the other builds
\* stop with a panic (SubPanics)
SubWraps(a, b) ==
    /\ last_sub' = Some(<<a, b>>)
    /\ wrapped' = (wrapped \/ Underflows(a, b))

SubPanics(a, b) ==
    /\ Underflows(a, b) /\ ~wrapped
    /\ last_sub' = Some(<<a, b>>)
    /\ pc' = "panic"

\* the PREGAP left in the list (no commands.remove(0) at line 261)
TrackPregap_KeepsPregap ==
    /\ pc = "track" /\ HeadIs("Pregap") /\ PregapHasIndex
    /\ LET first_index == commands[2].time
           time == Head(commands).time
           a == total_frames(first_index)
           b == total_frames(time)
       IN  \/ /\ SubWraps(a, b)
              /\ track' = [track EXCEPT
                             !.index = Append(@, PregapEntry(first_index, time))]
              /\ UNCHANGED <<input, commands, pc, header, files, file, last_time,
                             track_result, file_result, result>>
           \/ /\ SubPanics(a, b)
              /\ UNCHANGED <<input, commands, header, files, file, last_time,
                             track, track_result, file_result, wrapped, result>>

\* Command::Pregap(time) followed by an INDEX (lines 246-262)
TrackPregap ==
    /\ pc = "track" /\ HeadIs("Pregap") /\ PregapHasIndex
    /\ LET first_index == commands[2].time
           time == Head(commands).time
           a == total_frames(first_index)
           b == total_frames(time)
       IN  \/ /\ SubWraps(a, b)
              /\ track' = [track EXCEPT
                             !.index = Append(@, PregapEntry(first_index, time))]
              /\ commands' = Remove0(commands)
              /\ UNCHANGED <<input, pc, header, files, file, last_time,
                             track_result, file_result, result>>
           \/ /\ SubPanics(a, b)
              /\ UNCHANGED <<input, commands, header, files, file, last_time,
                             track, track_result, file_result, wrapped, result>>

\* Command::Pregap(time) that is the last command or is followed by something
\* else than an INDEX (lines 247-258): Track::consume returns Err;
\* TrackFile::consume leaves its loop (line 179) and returns Ok
TrackPregapErr ==
    /\ pc = "track" /\ HeadIs("Pregap") /\ ~PregapHasIndex
    /\ track_result' = IF Len(commands) < 2 THEN "PregapLast" ELSE "PregapNoIndex"
    /\ ReturnFile
    /\ UNCHANGED <<input, commands, header, file, last_time, track, last_sub,
                   wrapped, result>>

\* last_time kept over a track without indices
NextLastTime_Kept(t) ==
    IF Len(t.index) > 0 THEN Some(t.index[Len(t.index)][2]) ELSE last_time

\* lines 159-160 and 172-175: last_time after the track
NextLastTime(t) ==
    IF Len(t.index) > 0 THEN Some(t.index[Len(t.index)][2]) ELSE None

\* the track loop runs the subtraction of line 164
Infers(t, lt) == Len(t.index) > 0 /\ lt # None

\* the duration measured to the last index of the track instead of the first
NextTracks_ToLastIndex(tracks, lt, t) ==
    Append(IF Infers(t, lt) /\ Len(tracks) >= 1
           THEN [tracks EXCEPT
                   ![Len(tracks)].duration =
                       Some(TimeSub(t.index[Len(t.index)][2], lt[1]))]
           ELSE tracks,
           t)

\* the duration given to the track being pushed instead of the one before
NextTracks_ToCurrent(tracks, lt, t) ==
    Append(tracks,
           IF Infers(t, lt) /\ Len(tracks) >= 1
           THEN [t EXCEPT !.duration = Some(TimeSub(t.index[1][2], lt[1]))]
           ELSE t)

\* the duration written to the first track of the file (index 0) instead of
\* the track at track_n - 1
NextTracks_ToFirst(tracks, lt, t) ==
    Append(IF Infers(t, lt) /\ Len(tracks) >= 1
           THEN [tracks EXCEPT ![1].duration = Some(TimeSub(t.index[1][2], lt[1]))]
           ELSE tracks,
           t)

\* lines 162-170 and 177: the file's tracks after the track
NextTracks(tracks, lt, t) ==
    Append(IF Infers(t, lt) /\ Len(tracks) >= 1
           THEN [tracks EXCEPT
                   ![Len(tracks)].duration = Some(TimeSub(t.index[1][2], lt[1]))]
           ELSE tracks,
           t)

\* the loop of Track::consume ends (no command left, or line 267) and the
\* Track comes back to TrackFile::consume, which runs lines 159-177
TrackEnd ==
    /\ pc = "track"
    /\ \/ commands = <<>>
       \/ /\ commands # <<>>
          /\ Head(commands).cmd \notin {"Performer", "Title", "Isrc", "Pregap", "Index"}
    /\ track_result' = "Ok"
    /\ IF Infers(track, last_time)
       THEN LET a == total_frames(track.index[1][2])
                b == total_frames(last_time[1])
            IN  \/ /\ SubWraps(a, b)
                   /\ file' = [file EXCEPT
                                 !.tracks = NextTracks(@, last_time, track)]
                   /\ last_time' = NextLastTime(track)
                   /\ pc' = "tracks"
                \/ /\ SubPanics(a, b)
                   /\ UNCHANGED <<file, last_time, wrapped>>
       ELSE /\ file' = [file EXCEPT !.tracks = NextTracks(@, last_time, track)]
            /\ last_time' = NextLastTime(track)
            /\ pc' = "tracks"
            /\ UNCHANGED <<last_sub, wrapped>>
    /\ UNCHANGED <<input, commands, header, files, track, file_result, result>>

Next ==
    \/ HeaderCatalog \/ HeaderPerformer \/ HeaderTitle \/ HeaderRem \/ HeaderBreak
    \/ FilesExit \/ FileBegin \/ FileFail
    \/ TracksExit \/ TrackBegin \/ TrackFail
    \/ TrackPerformer \/ TrackTitle \/ TrackIsrc \/ TrackIndex
    \/ TrackPregap \/ TrackPregapErr \/ TrackEnd

Spec == Init /\ [][Next]_vars

(***************************************************************************)
(* Vocabulary of the properties.                                           *)
(***************************************************************************)
\* the number of commands removed so far; input[Consumed] was removed last
Consumed == Len(input) - Len(commands)

HeaderKinds == {"Catalog", "Performer", "Title", "Rem"}
TrackKinds == {"Performer", "Title", "Isrc", "Index"}

RECURSIVE HeaderRun(_)
\* the length of the run of header commands a command list starts with
HeaderRun(cs) ==
    IF cs # <<>> /\ Head(cs).cmd \in HeaderKinds THEN 1 + HeaderRun(Tail(cs)) ELSE 0

\* the commands after the header run
Body(cs) == SubSeq(cs, HeaderRun(cs) + 1, Len(cs))

IsFileCmd(c) == c.cmd = "File"
IsTrackCmd(c) == c.cmd = "Track"

\* header commands, then one or more blocks: a FILE, then tracks, each a TRACK
\* with PERFORMER, TITLE, ISRC and INDEX commands after it
WellFormedBlocks(cs) ==
    LET b == Body(cs)
    IN  /\ b # <<>>
        /\ b[1].cmd = "File"
        /\ b[Len(b)].cmd # "File"
        /\ \A i \in 1..Len(b) : b[i].cmd \in {"File", "Track"} \cup TrackKinds
        /\ \A i \in 2..Len(b) : b[i - 1].cmd = "File" => b[i].cmd = "Track"

\* the position in b of its j-th FILE command (Len(b) + 1 when there is none)
FilePosition(b, j) ==
    IF \E p \in 1..Len(b) :
          b[p].cmd = "File" /\ Len(SelectSeq(SubSeq(b, 1, p), IsFileCmd)) = j
    THEN CHOOSE p \in 1..Len(b) :
          b[p].cmd = "File" /\ Len(SelectSeq(SubSeq(b, 1, p), IsFileCmd)) = j
    ELSE Len(b) + 1

\* the TRACK commands of the j-th block of b
BlockTracks(b, j) ==
    SelectSeq(SubSeq(b, FilePosition(b, j) + 1, FilePosition(b, j + 1) - 1), IsTrackCmd)

\* the file f is the one the j-th block of b describes
FileOfBlock(f, b, j) ==
    LET c == b[FilePosition(b, j)]
        ts == BlockTracks(b, j)
    IN  /\ f.name = c.name /\ f.format = c.format
        /\ Len(f.tracks) = Len(ts)
        /\ \A i \in 1..Len(ts) :
              /\ f.tracks[i].number = ts[i].number
              /\ f.tracks[i].track_type = ts[i].track_type

\* C1: when the input is header commands followed by k >= 1 blocks, each a
\* FILE followed by well-formed tracks, the Tracklist returned holds exactly
\* k files, in the order of the FILE commands, each with the name and the
\* format of its FILE command and the tracks of its own block.
C1_MultiFileAssembly ==
    (pc = "done" /\ WellFormedBlocks(input)) =>
        LET b == Body(input)
            k == Len(SelectSeq(b, IsFileCmd))
            fs == result[1].files
        IN  /\ Len(fs) = k
            /\ \A j \in 1..k : FileOfBlock(fs[j], b, j)

\* the TrackFiles assembled so far
Assembled == {files[j] : j \in 1..Len(files)}

FirstTime(t) == t.index[1][2]
LastTime(t) == t.index[Len(t.index)][2]

C3_LastTrackNoDuration ==
    /\ \A f \in Assembled :
          f.tracks # <<>> => f.tracks[Len(f.tracks)].duration = None
    /\ pc = "done" =>
          \A j \in 1..Len(result[1].files) :
              LET ts == result[1].files[j].tracks
              IN  ts # <<>> => ts[Len(ts)].duration = None

\* a Tracklist of two files: the first ends with an indexed track, the second
\* starts with one
C3_Witness ==
    /\ pc = "done"
    /\ Len(result[1].files) = 2
    /\ LET a == result[1].files[1].tracks
           b == result[1].files[2].tracks
       IN  /\ a # <<>> /\ a[Len(a)].index # <<>>
           /\ b # <<>> /\ b[1].index # <<>>

\* C4: a track without indices has no duration, and neither has the track
\* right before it.
C4_IndexlessBreaksChain ==
    \A f \in Assembled : \A i \in 1..Len(f.tracks) :
        f.tracks[i].index = <<>> =>
            /\ f.tracks[i].duration = None
            /\ i > 1 => f.tracks[i - 1].duration = None

\* a track without indices between two tracks that have indices
C4_Witness ==
    \E f \in Assembled : \E i \in 2..(Len(f.tracks) - 1) :
        /\ f.tracks[i].index = <<>>
        /\ f.tracks[i - 1].index # <<>>
        /\ f.tracks[i + 1].index # <<>>

\* C5: once PREGAP(L) and the INDEX(n, t) after it, t >= L, are consumed in a
\* track, the track's index list ends with (0, t - L), a normalized Time,
\* followed by (n, t): the PREGAP left no other trace and the INDEX was
\* consumed once.
C5_PregapSynthesis ==
    (/\ pc = "track" /\ Consumed >= 2
     /\ input[Consumed].cmd = "Index" /\ input[Consumed - 1].cmd = "Pregap"
     /\ total_frames(input[Consumed].time) >= total_frames(input[Consumed - 1].time))
    => LET ix == track.index
           n == Len(ix)
       IN  /\ n >= 2
           /\ ix[n] = <<input[Consumed].i, input[Consumed].time>>
           /\ ix[n - 1][1] = 0
           /\ ix[n - 1][2].wraps = 0
           /\ ix[n - 1][2].seconds < SecondsPerMinute
           /\ ix[n - 1][2].frames < FramesPerSecond
           /\ total_frames(ix[n - 1][2]) + total_frames(input[Consumed - 1].time)
                 = total_frames(input[Consumed].time)

\* PREGAP 00:02:00, INDEX 01 02:01:36 gave (0, 01:59:36), (1, 02:01:36)
C5_Witness ==
    /\ pc = "track"
    /\ track.index = << <<0, Time(1, 59, 36)>>, <<1, Time(2, 1, 36)>> >>

PregapErrors == {"PregapLast", "PregapNoIndex"}

\* C6: when Track::consume fails because a PREGAP is not followed by an
\* INDEX, TrackFile::consume fails too: it returns no TrackFile, and the file
\* of that track is not among the files.
C6_PregapFailureFailsFile ==
    (track_result \in PregapErrors /\ pc \in {"files", "done"}) =>
        /\ file_result # "Ok"
        /\ ~(files # <<>> /\ files[Len(files)] = file)

\* C7: Tracklist::parse always returns a Tracklist: the run never stops
\* without one, and the Tracklist holds the files collected and the header
\* fields read.
C7_AlwaysReturnsTracklist ==
    /\ pc # "panic"
    /\ pc = "done" => result = Some(TracklistOf(files))

\* the letters of k are those of the upper-case word w, in any case
SameWord(k, w) ==
    /\ Len(k) = Len(w)
    /\ \A i \in 1..Len(k) :
          \/ k[i] = w[i]
          \/ \E j \in 1..Len(UpperChars) : UpperChars[j] = w[i] /\ LowerChars[j] = k[i]

KnownKeys == {K_GENRE, K_DATE, K_DISCID, K_COMMENT, K_DISCNUMBER, K_TOTALDISCS}

\* C8: a REM in the header run sets genre, date, discid or comment to its
\* value when its key is that word in any letter case; with a key that is none
\* of the six words it changes no field; it is removed either way and the
\* header loop goes on.
C8_RemDispatch ==
    [][(pc = "header" /\ HeadIs("Rem")) =>
        LET k == Head(commands).t
            v == Head(commands).d
        IN  /\ commands' = Tail(commands)
            /\ pc' = "header"
            /\ genre' = IF SameWord(k, K_GENRE) THEN Some(v) ELSE genre
            /\ date' = IF SameWord(k, K_DATE) THEN Some(v) ELSE date
            /\ discid' = IF SameWord(k, K_DISCID) THEN Some(v) ELSE discid
            /\ comment' = IF SameWord(k, K_COMMENT) THEN Some(v) ELSE comment
            /\ (\A w \in KnownKeys : ~SameWord(k, w)) => UNCHANGED header
            /\ UNCHANGED <<catalog, performer, title, files, result>>
      ]_vars

\* REM genre Rock, then REM GeNrE Pop: the last one wins
C8_Witness ==
    /\ pc = "header" /\ Consumed = 2
    /\ input[1] = Rem(<<"g", "e", "n", "r", "e">>, GenreValue)
    /\ genre = Some(PopValue)

RECURSIVE DecimalValue(_)
\* the number a string of digits writes
DecimalValue(ds) ==
    IF ds = <<>> THEN 0
    ELSE 10 * DecimalValue(SubSeq(ds, 1, Len(ds) - 1))
            + (CHOOSE n \in 0..9 : Digits[n + 1] = ds[Len(ds)])

\* v without the sign "+" it may start with
Unsigned(v) == IF v # <<>> /\ v[1] = "+" THEN Tail(v) ELSE v

\* v writes an unsigned integer of 0..255
IsU8Text(v) ==
    /\ Unsigned(v) # <<>>
    /\ \A i \in 1..Len(Unsigned(v)) : \E n \in 0..9 : Digits[n + 1] = Unsigned(v)[i]
    /\ DecimalValue(Unsigned(v)) <= U8Max

\* C9: REM DISCNUMBER v (TOTALDISCS v) sets discnumber (totaldiscs) to the
\* number v writes exactly when v writes an unsigned integer of 0..255;
\* otherwise the field keeps its value; no other field changes, the command is
\* removed and the header loop goes on.
C9_NumericRem ==
    [][(pc = "header" /\ HeadIs("Rem")) =>
        LET k == Head(commands).t
            v == Head(commands).d
            number == IF IsU8Text(v) THEN Some(DecimalValue(Unsigned(v))) ELSE None
        IN  /\ SameWord(k, K_DISCNUMBER) =>
                /\ discnumber' = IF number # None THEN number ELSE discnumber
                /\ UNCHANGED <<catalog, performer, title, genre, date, discid,
                               comment, totaldiscs>>
            /\ SameWord(k, K_TOTALDISCS) =>
                /\ totaldiscs' = IF number # None THEN number ELSE totaldiscs
                /\ UNCHANGED <<catalog, performer, title, genre, date, discid,
                               comment, discnumber>>
            /\ ~SameWord(k, K_DISCNUMBER) => UNCHANGED discnumber
            /\ ~SameWord(k, K_TOTALDISCS) => UNCHANGED totaldiscs
            /\ (SameWord(k, K_DISCNUMBER) \/ SameWord(k, K_TOTALDISCS)) =>
                  commands' = Tail(commands) /\ pc' = "header"
      ]_vars

\* REM DISCNUMBER 2, then REM DISCNUMBER 256: the 2 is kept
C9_Witness ==
    /\ pc = "header" /\ Consumed = 2
    /\ input[1] = Rem(K_DISCNUMBER, <<"2">>)
    /\ input[2] = Rem(K_DISCNUMBER, <<"2", "5", "6">>)
    /\ discnumber = Some(2)

\* C10: every frame-count subtraction a - b the assembly runs has a >= b, and
\* none overflows.
C10_SubtractionPrecondition ==
    /\ last_sub # None => ~Underflows(last_sub[1][1], last_sub[1][2])
    /\ ~wrapped
    /\ pc # "panic"

\* C12: whenever TrackFile::consume returns a TrackFile, the command list
\* starts with the first command after the file's tracks that is no TRACK (or
\* is empty): the last command removed belongs to the file, and Track::consume
\* never fails for want of a TRACK command.
C12_CursorAfterFile ==
    /\ track_result # "ExpectedTrack"
    /\ (pc = "files" /\ file_result = "Ok") =>
          /\ ~HeadIs("Track")
          /\ input[Consumed].cmd \in {"File", "Track"} \cup TrackKinds

Terminal == pc \in {"done", "panic"}

\* how far the program is from the end of the loop it is in
Rank ==
    CASE pc = "header" -> 4
      [] pc = "track" -> 3
      [] pc = "tracks" -> 2
      [] pc = "files" -> 1
      [] OTHER -> 0

Measure == 5 * Len(commands) + Rank

\* C13: every step of the four loops removes at least one command or leaves
\* its loop, a measure of the state falls with every step, and a step is
\* possible until the run has ended: the assembly ends on every input.
C13_Termination ==
    /\ [][/\ Len(commands') < Len(commands) \/ pc' # pc
          /\ Measure' < Measure]_vars
    /\ [](Terminal \/ ENABLED Next)

\* a PREGAP followed by an INDEX was removed and the track's loop goes on
C13_Witness ==
    /\ pc = "track" /\ Consumed >= 1
    /\ input[Consumed].cmd = "Pregap"
    /\ HeadIs("Index")

\* the track without its duration
Undated(t) == [t EXCEPT !.duration = None]

\* C14: a track in a file's track list keeps all its fields but duration; its
\* duration changes only from None to a value, and only in the step that
\* pushes the next track of the same file; a file that was returned never
\* changes.
C14_WriteOnceDuration ==
    [][/\ \A j \in 1..Len(files) : Len(files') >= j /\ files'[j] = files[j]
       /\ Len(files') > Len(files) => files'[Len(files')] = file
       /\ pc \in {"tracks", "track"} =>
             \A i \in 1..Len(file.tracks) :
                 /\ Len(file'.tracks) >= i
                 /\ Undated(file'.tracks[i]) = Undated(file.tracks[i])
                 /\ file'.tracks[i].duration # file.tracks[i].duration =>
                       /\ file.tracks[i].duration = None
                       /\ file'.tracks[i].duration # None
                       /\ i = Len(file.tracks)
                       /\ Len(file'.tracks) = i + 1
                       /\ pc = "track" /\ pc' = "tracks"
      ]_vars

\* a duration set when the second track was pushed is still there after the
\* third
C14_Witness ==
    /\ pc = "tracks"
    /\ Len(file.tracks) >= 3
    /\ file.tracks[1].duration # None
    /\ file.tracks[2].duration # None

\* the position in the input of the TRACK command of the track being read
TrackStart ==
    CHOOSE p \in 1..Consumed :
        /\ input[p].cmd = "Track"
        /\ \A q \in (p + 1)..Consumed : input[q].cmd # "Track"

MakesEntry(p) == input[p].cmd \in {"Index", "Pregap"}

\* the positions of the INDEX and PREGAP commands removed since TrackStart
Producers ==
    SelectSeq([k \in 1..(Consumed - TrackStart) |-> TrackStart + k], MakesEntry)

\* C15: the index list of a track holds, in the order of the source, one
\* entry (n, t) for each INDEX(n, t) of the track and one entry numbered 0 for
\* each PREGAP, right before the entry of the INDEX after that PREGAP, and
\* nothing else; the track pushed has that list.
C15_IndexListComposition ==
    /\ pc = "track" =>
          /\ Len(track.index) = Len(Producers)
          /\ \A k \in 1..Len(Producers) :
                LET p == Producers[k]
                    c == input[p]
                    e == track.index[k]
                IN  IF c.cmd = "Index"
                    THEN e = <<c.i, c.time>>
                    ELSE /\ e[1] = 0
                         /\ input[p + 1].cmd = "Index"
                         /\ k < Len(Producers) => Producers[k + 1] = p + 1
                         /\ ~Underflows(total_frames(input[p + 1].time),
                                        total_frames(c.time)) =>
                               total_frames(e[2]) + total_frames(c.time)
                                   = total_frames(input[p + 1].time)
    /\ (pc = "tracks" /\ file.tracks # <<>>) =>
          file.tracks[Len(file.tracks)].index = track.index

\* TRACK, PERFORMER, INDEX 00, INDEX 01 gave a list of two entries
C15_Witness ==
    /\ pc = "track"
    /\ Consumed - TrackStart = 3
    /\ track.performer # None
    /\ Len(track.index) = 2
    /\ track.index[1][1] = 0 /\ track.index[2][1] = 1

\* seconds <= 59 and frames <= 74
Normalized(t) ==
    /\ t.seconds \in 0..(SecondsPerMinute - 1)
    /\ t.frames \in 0..(FramesPerSecond - 1)
    /\ t.wraps = 0 => t.minutes >= 0

\* the Times held by the track being read and by the tracks pushed
IndexTimes(tracks) ==
    UNION {{tracks[i].index[k][2] : k \in 1..Len(tracks[i].index)} :
              i \in 1..Len(tracks)}

Durations(tracks) ==
    {tracks[i].duration[1] : i \in {j \in 1..Len(tracks) : tracks[j].duration # None}}

StateTimes ==
    IndexTimes(<<track>>) \cup IndexTimes(file.tracks) \cup Durations(file.tracks)
        \cup UNION {IndexTimes(f.tracks) \cup Durations(f.tracks) : f \in Assembled}

\* from_frames gives a normalized Time of the same frame count, up to MaxFrames
RoundTripFrames ==
    \A n \in 0..MaxFrames :
        Normalized(from_frames(n)) /\ total_frames(from_frames(n)) = n

\* from_frames gives back a normalized Time from its frame count
RoundTripTimes ==
    \A m \in 0..MaxMinutes, s \in 0..(SecondsPerMinute - 1),
       f \in 0..(FramesPerSecond - 1) :
        from_frames(total_frames(Time(m, s, f))) = Time(m, s, f)

\* C16: from_frames(n) is normalized and total_frames(from_frames(n)) = n;
\* from_frames(total_frames(t)) = t for a normalized t; so every Time in an
\* index list or a duration is normalized, the results of the subtractions
\* included (58:41:36 less 00:02:00 is 58:39:36).
C16_TimeRoundTrip ==
    /\ RoundTripFrames
    /\ RoundTripTimes
    /\ TimeSub(Time(58, 41, 36), Time(0, 2, 0)) = Time(58, 39, 36)
    /\ \A t \in StateTimes : Normalized(t) /\ from_frames(total_frames(t)) = t
    /\ last_sub # None =>
          LET n == WrappingSub(last_sub[1][1], last_sub[1][2])
          IN  Normalized(from_frames(n)) /\ total_frames(from_frames(n)) = n

\* a duration with a borrow: 01:59:36, itself 02:01:36 less 00:02:00, less
\* 01:02:10
C16_Witness ==
    \E i \in 1..Len(file.tracks) : file.tracks[i].duration = Some(Time(0, 57, 26))

\* the value of the last command of the kind in cs, None without one
LastValue(cs, kind) ==
    LET ps == {i \in 1..Len(cs) : cs[i].cmd = kind}
    IN  IF ps = {} THEN None
        ELSE LET c == cs[CHOOSE i \in ps : \A j \in ps : j <= i]
             IN  Some(IF kind \in {"Catalog", "Performer"} THEN c.p ELSE c.t)

\* the header commands read so far: the whole run once the header loop is left
HeaderRead ==
    SubSeq(input, 1, IF pc = "header" THEN Consumed ELSE HeaderRun(input))

\* C17: catalog, performer and title of the Tracklist are the values of the
\* last CATALOG, PERFORMER and TITLE of the header run the input starts with
\* (None without one) whatever follows the run; the track being read has the
\* values of the last PERFORMER, TITLE and ISRC since its TRACK command, and
\* is pushed with them.
C17_HeaderScoping ==
    /\ catalog = LastValue(HeaderRead, "Catalog")
    /\ performer = LastValue(HeaderRead, "Performer")
    /\ title = LastValue(HeaderRead, "Title")
    /\ pc = "done" =>
          /\ result[1].catalog = catalog
          /\ result[1].performer = performer
          /\ result[1].title = title
    /\ pc = "track" =>
          LET own == SubSeq(input, TrackStart + 1, Consumed)
          IN  /\ track.performer = LastValue(own, "Performer")
              /\ track.title = LastValue(own, "Title")
              /\ track.isrc = LastValue(own, "Isrc")
    /\ (pc = "tracks" /\ file.tracks # <<>>) =>
          LET pushed == file.tracks[Len(file.tracks)]
          IN  /\ pushed.performer = track.performer
              /\ pushed.title = track.title
              /\ pushed.isrc = track.isrc

\* two PERFORMERs in the header, then a track with its own PERFORMER and two
\* TITLEs
C17_Witness ==
    /\ pc = "track"
    /\ HeaderRun(input) = 2
    /\ input[1] = Performer("Fish")
    /\ performer = Some("Marillion")
    /\ title = None
    /\ track.performer = Some("Fish")
    /\ track.title = Some("Freaks")

\* the commands of b before position p are FILE and TRACK commands and
\* commands of a track that follow a TRACK command, the first one a FILE:
\* the blocks before p are whole, with any number of tracks
WholeBlocksBefore(b, p) ==
    /\ b[1].cmd = "File"
    /\ \A q \in 2..(p - 1) :
          \/ b[q].cmd \in {"File", "Track"}
          \/ b[q].cmd \in TrackKinds /\ b[q - 1].cmd # "File"

\* the FILE command at position p of b has no TRACK command after it
Trackless(b, p) ==
    /\ b[p].cmd = "File"
    /\ p = Len(b) \/ b[p + 1].cmd # "Track"

\* C18: a FILE command that no TRACK command follows (the input ends there,
\* or another command comes, such as a FILE) gives a TrackFile of its name
\* with no track, held by the Tracklist returned at the place of that FILE
\* among the FILE commands.
C18_ZeroTrackFile ==
    pc = "done" =>
        LET b == Body(input)
            fs == result[1].files
        IN  \A p \in 1..Len(b) :
                (Trackless(b, p) /\ WholeBlocksBefore(b, p)) =>
                    LET j == Len(SelectSeq(SubSeq(b, 1, p), IsFileCmd))
                    IN  /\ Len(fs) >= j
                        /\ fs[j].name = b[p].name
                        /\ fs[j].format = b[p].format
                        /\ fs[j].tracks = <<>>

====
